---------------------------- MODULE Spec2Model ----------------------------
(***************************************************************************)
(* The censorplus module (src/m_censorplus.cpp) as a state machine: the    *)
(* configuration loader ReadConfig, the message hook OnUserPreMessage with *)
(* its character-set check (IsMixedUTF8, IsAllowed and the three pattern   *)
(* matchers) and its phrase scan over the CensorMap.                       *)
(*                                                                         *)
(* Texts are sequences of bytes (0..255), as std::string holds them.       *)
(***************************************************************************)
EXTENDS Integers, Sequences, FiniteSets, TLC

(***************************************************************************)
(* Bounds of the model.                                                    *)
(***************************************************************************)
\* Longest enumerated message, counted in characters of Chars.
MaxChars == 2
\* Size beyond which std::string::replace throws (stands for max_size()).
MaxTextLen == 24
\* Number of rehashes of the loaded module.
MaxRehashes == 1
\* The pass counter of the find-and-replace loop wraps at this value.
IterWrap == 2

(***************************************************************************)
(* Byte strings.                                                           *)
(***************************************************************************)
NPOS == 0   \* positions are 1-based in the model; 0 stands for std::string::npos

\* irc::insensitive / irc::find fold case with the ASCII case map
ToLower(c) == IF c >= 65 /\ c <= 90 THEN c + 32 ELSE c

Fold(s) == [i \in 1..Len(s) |-> ToLower(s[i])]

\* MatchesAt comparing the first byte of the phrase only
MatchesAt_FirstByte(haystack, needle, p) ==
    /\ p + Len(needle) - 1 <= Len(haystack)
    /\ \A k \in 1..Len(needle) :
          k = 1 => ToLower(haystack[p + k - 1]) = ToLower(needle[k])

\* does needle occur in haystack at position p, ignoring ASCII case
MatchesAt(haystack, needle, p) ==
    /\ p + Len(needle) - 1 <= Len(haystack)
    /\ \A k \in 1..Len(needle) : ToLower(haystack[p + k - 1]) = ToLower(needle[k])

\* irc::find(haystack, needle): the first position of needle, ignoring case
Find(haystack, needle) ==
    IF Len(needle) > Len(haystack) THEN NPOS
    ELSE LET hits == {p \in 1..(Len(haystack) - Len(needle) + 1) :
                          MatchesAt(haystack, needle, p)}
         IN  IF hits = {} THEN NPOS
             ELSE CHOOSE p \in hits : \A q \in hits : p <= q

\* Replace erasing as many bytes as the replacement has, not as the phrase has
Replace_ReplacementSize(text, pos, n, repl) ==
    SubSeq(text, 1, pos - 1) \o repl \o SubSeq(text, pos + Len(repl), Len(text))

\* std::string::replace(pos, n, repl)
Replace(text, pos, n, repl) ==
    SubSeq(text, 1, pos - 1) \o repl \o SubSeq(text, pos + n, Len(text))

(***************************************************************************)
(* CensorMap: insp::flat_map<string, string, irc::insensitive_swo>, a      *)
(* vector of (key, value) kept sorted by the case-insensitive order.       *)
(***************************************************************************)
\* irc::insensitive_swo: lexicographic order of the case-folded bytes
InsensitiveLess(a, b) ==
    LET fa == Fold(a)
        fb == Fold(b)
        n  == IF Len(fa) < Len(fb) THEN Len(fa) ELSE Len(fb)
        diff == {i \in 1..n : fa[i] # fb[i]}
    IN  IF diff = {} THEN Len(fa) < Len(fb)
        ELSE LET d == CHOOSE i \in diff : \A j \in diff : i <= j
             IN  fa[d] < fb[d]

InsensitiveEq(a, b) == ~InsensitiveLess(a, b) /\ ~InsensitiveLess(b, a)

\* MapAssign keeping the entries in the order they are configured in
MapAssign_Unsorted(map, key, val) ==
    LET same == {i \in 1..Len(map) : InsensitiveEq(map[i].find, key)}
    IN  IF same # {}
        THEN [i \in 1..Len(map) |->
                 IF i \in same THEN [find |-> map[i].find, replace |-> val]
                 ELSE map[i]]
        ELSE Append(map, [find |-> key, replace |-> val])

\* MapAssign inserting in order without looking for an equivalent key
MapAssign_NoDedup(map, key, val) ==
    LET before == {i \in 1..Len(map) : InsensitiveLess(map[i].find, key)}
    IN  SubSeq(map, 1, Cardinality(before))
            \o <<[find |-> key, replace |-> val]>>
            \o SubSeq(map, Cardinality(before) + 1, Len(map))

\* newcensors[text] = replace: assign to the equivalent key, or insert in order
MapAssign(map, key, val) ==
    LET same == {i \in 1..Len(map) : InsensitiveEq(map[i].find, key)}
        before == {i \in 1..Len(map) : InsensitiveLess(map[i].find, key)}
    IN  IF same # {}
        THEN [i \in 1..Len(map) |->
                 IF i \in same THEN [find |-> map[i].find, replace |-> val]
                 ELSE map[i]]
        ELSE SubSeq(map, 1, Cardinality(before))
                 \o <<[find |-> key, replace |-> val]>>
                 \o SubSeq(map, Cardinality(before) + 1, Len(map))

\* the map built by the loop over the <badword> tags, in configuration order
RECURSIVE BuildCensors(_, _)
BuildCensors(tags, map) ==
    IF tags = <<>> THEN map
    ELSE BuildCensors(Tail(tags), MapAssign(map, Head(tags).text, Head(tags).replace))

(***************************************************************************)
(* IsMixedUTF8: a byte-wise classification with the C library's <cctype>   *)
(* predicates.  Their answer for a byte >= 128 depends on the process      *)
(* locale, which the module does not set: the model carries it as the      *)
(* environment variable `locale`, "C" or the single-byte "ISO-8859-1".     *)
(***************************************************************************)
Locales == {"C", "ISO-8859-1"}

IsUpperByte(loc, c) ==
    \/ c >= 65 /\ c <= 90
    \/ loc = "ISO-8859-1" /\ c >= 192 /\ c <= 222 /\ c # 215

IsLowerByte(loc, c) ==
    \/ c >= 97 /\ c <= 122
    \/ loc = "ISO-8859-1" /\ (c = 181 \/ (c >= 223 /\ c <= 255 /\ c # 247))

\* the ordinal indicators 0xAA and 0xBA are letters without case
IsAlphaByte(loc, c) ==
    \/ IsUpperByte(loc, c)
    \/ IsLowerByte(loc, c)
    \/ loc = "ISO-8859-1" /\ c \in {170, 186}

\* the loop of IsMixedUTF8 with the std::isalpha test left out
RECURSIVE MixedFrom_NoAlphaTest(_, _, _, _)
MixedFrom_NoAlphaTest(loc, text, i, detected) ==
    IF i > Len(text) THEN FALSE
    ELSE LET c == text[i] IN
         IF c < 128 THEN MixedFrom_NoAlphaTest(loc, text, i + 1, detected)
         ELSE LET current == IF IsLowerByte(loc, c) \/ IsUpperByte(loc, c)
                             THEN "SCRIPT_LATIN" ELSE "SCRIPT_NONLATIN"
              IN  IF detected = "SCRIPT_UNKNOWN"
                  THEN MixedFrom_NoAlphaTest(loc, text, i + 1, current)
                  ELSE IF detected # current THEN TRUE
                  ELSE MixedFrom_NoAlphaTest(loc, text, i + 1, detected)

\* the loop of IsMixedUTF8 from byte i on, with `detected` as found so far
RECURSIVE MixedFrom(_, _, _, _)
MixedFrom(loc, text, i, detected) ==
    IF i > Len(text) THEN FALSE
    ELSE LET c == text[i] IN
         IF c < 128 THEN MixedFrom(loc, text, i + 1, detected)
         ELSE IF IsAlphaByte(loc, c)
              THEN LET current == IF IsLowerByte(loc, c) \/ IsUpperByte(loc, c)
                                  THEN "SCRIPT_LATIN" ELSE "SCRIPT_NONLATIN"
                   IN  IF detected = "SCRIPT_UNKNOWN"
                       THEN MixedFrom(loc, text, i + 1, current)
                       ELSE IF detected # current THEN TRUE
                       ELSE MixedFrom(loc, text, i + 1, detected)
              ELSE MixedFrom(loc, text, i + 1, detected)

IsMixedUTF8(loc, text) ==
    IF text = <<>> THEN FALSE ELSE MixedFrom(loc, text, 1, "SCRIPT_UNKNOWN")

(***************************************************************************)
(* UTF-8 decoding, as both pattern engines read the text (the whitelist is *)
(* compiled with HS_FLAG_UTF8, ICU converts from "UTF-8").  An ill-formed  *)
(* byte decodes to -1.                                                     *)
(***************************************************************************)
IsCont(text, i) == i <= Len(text) /\ text[i] >= 128 /\ text[i] <= 191

RECURSIVE DecodeFrom(_, _)
DecodeFrom(text, i) ==
    IF i > Len(text) THEN <<>>
    ELSE LET b == text[i] IN
         IF b < 128 THEN <<b>> \o DecodeFrom(text, i + 1)
         ELSE IF b >= 194 /\ b <= 223 /\ IsCont(text, i + 1)
              THEN <<(b - 192) * 64 + (text[i + 1] - 128)>> \o DecodeFrom(text, i + 2)
         ELSE IF b >= 224 /\ b <= 239 /\ IsCont(text, i + 1) /\ IsCont(text, i + 2)
              THEN <<(b - 224) * 4096 + (text[i + 1] - 128) * 64 + (text[i + 2] - 128)>>
                       \o DecodeFrom(text, i + 3)
         ELSE <<-1>> \o DecodeFrom(text, i + 1)

Decode(text) == DecodeFrom(text, 1)

IsValidUTF8(text) == \A i \in 1..Len(Decode(text)) : Decode(text)[i] # -1

\* icu::UnicodeString(text, "UTF-8"): ill-formed input becomes U+FFFD
ToUnicodeString(text) ==
    LET d == Decode(text) IN [i \in 1..Len(d) |-> IF d[i] = -1 THEN 65533 ELSE d[i]]

(***************************************************************************)
(* Patterns.  A pattern source is a sequence of tokens: "^", "$", "+" and  *)
(* character classes (sets of code points).  The compiled form is          *)
(*     ^? class(+)? class(+)? ... $?                                       *)
(* held as the record [ok, astart, aend, elems]; ok = FALSE is the null    *)
(* pointer (nothing compiled).                                             *)
(***************************************************************************)
Caret == [t |-> "^", cls |-> {}]
Dollar == [t |-> "$", cls |-> {}]
Plus == [t |-> "+", cls |-> {}]
Class(S) == [t |-> "class", cls |-> S]

NullPattern == [ok |-> FALSE, astart |-> FALSE, aend |-> FALSE, elems |-> <<>>]

\* the elements of src from token i up to (not including) token last + 1
RECURSIVE ParseElems(_, _, _, _)
ParseElems(src, i, last, acc) ==
    IF i > last THEN [ok |-> TRUE, elems |-> acc]
    ELSE IF src[i].t # "class" THEN [ok |-> FALSE, elems |-> <<>>]
    ELSE IF i + 1 <= last /\ src[i + 1].t = "+"
         THEN ParseElems(src, i + 2, last, Append(acc, [cls |-> src[i].cls, plus |-> TRUE]))
         ELSE ParseElems(src, i + 1, last, Append(acc, [cls |-> src[i].cls, plus |-> FALSE]))

ParsePattern(src) ==
    LET astart == Len(src) >= 1 /\ src[1].t = "^"
        aend   == Len(src) >= 1 /\ src[Len(src)].t = "$"
        first  == IF astart THEN 2 ELSE 1
        last   == IF aend THEN Len(src) - 1 ELSE Len(src)
        body   == ParseElems(src, first, last, <<>>)
    IN  IF body.ok
        THEN [ok |-> TRUE, astart |-> astart, aend |-> aend, elems |-> body.elems]
        ELSE NullPattern

\* icu::RegexPattern::compile: null and a failure status on a malformed source
IcuCompile(src) == ParsePattern(src)

\* hs_compile: fails on a malformed source and on a pattern that can match the
\* empty buffer (HS_FLAG_ALLOWEMPTY is not given); *db is null on failure
HsCompile(src) ==
    LET p == ParsePattern(src) IN
    IF p.ok /\ p.elems # <<>> THEN p ELSE NullPattern

\* one unit of input through the position automaton: S is the set of
\* positions (number of elements matched so far) that are alive
NfaStep(p, S, u) ==
    {i + 1 : i \in {j \in S : j < Len(p.elems) /\ u \in p.elems[j + 1].cls}}
        \cup {i \in S : i >= 1 /\ p.elems[i].plus /\ u \in p.elems[i].cls}

RECURSIVE NfaRun(_, _, _, _)
NfaRun(p, S, units, i) ==
    IF i > Len(units) THEN S ELSE NfaRun(p, NfaStep(p, S, units[i]), units, i + 1)

\* icu::RegexMatcher::matches: the whole input must match
IcuMatches(p, ustr) == Len(p.elems) \in NfaRun(p, {0}, ustr, 1)

(***************************************************************************)
(* The Hyperscan stream: the automaton state carried from one              *)
(* hs_scan_stream call to the next.  A match may start at any offset of    *)
(* the stream unless the pattern starts with ^ (offset 0 only); a pattern  *)
(* ending in $ matches at the end of the stream, which only                *)
(* hs_close_stream reports.                                                *)
(***************************************************************************)
NullStream == [ok |-> FALSE, db |-> NullPattern, st |-> {}]

\* hs_open_stream
OpenStream(db) == [ok |-> TRUE, db |-> db, st |-> {0}]

\* the scan of units i.. : the state after, and whether onMatch was called
RECURSIVE ScanFrom(_, _, _, _, _)
ScanFrom(db, S, units, i, matched) ==
    IF i > Len(units) THEN [st |-> S, matched |-> matched]
    ELSE LET T == NfaStep(db, S, units[i])
             hit == Len(db.elems) \in T /\ ~db.aend
         IN  ScanFrom(db, IF db.astart THEN T ELSE T \cup {0}, units, i + 1,
                      matched \/ hit)

\* hs_scan_stream(stream, text): one block written to the stream
ScanStream(strm, text) == ScanFrom(strm.db, strm.st, Decode(text), 1, FALSE)

(***************************************************************************)
(* The matchers of the module.  Each returns the set of outcomes the call  *)
(* can have: calling through a null pattern pointer and scanning ill-      *)
(* formed UTF-8 with a HS_FLAG_UTF8 database are undefined.                *)
(***************************************************************************)
\* IsMatch: scans the text on the module's one stream and returns whether
\* onMatch ran, whatever hs_scan_stream returned.  hs_scan_stream fails before
\* it reads anything (HS_INVALID on a null stream or scratch,
\* HS_SCRATCH_IN_USE, ...) or after the scan (HS_UNKNOWN_ERROR); err says
\* that it failed and the failure was logged.
IsMatch(strm, scr, text) ==
    IF ~strm.ok \/ ~scr
    THEN {[matched |-> FALSE, strm |-> strm, err |-> TRUE]}
    ELSE LET r == ScanStream(strm, text)
             after == [strm EXCEPT !.st = r.st]
         IN  (IF IsValidUTF8(text)
              THEN {[matched |-> r.matched, strm |-> after, err |-> FALSE]}
              ELSE {[matched |-> m, strm |-> after, err |-> FALSE] : m \in BOOLEAN})
             \cup {[matched |-> FALSE, strm |-> strm, err |-> TRUE],
                   [matched |-> r.matched, strm |-> after, err |-> TRUE]}

\* IsEmojiOnly / IsKiwiIRCOnly: "crash" when the pattern pointer is null
IsEmojiOnly(pattern, text) ==
    IF ~pattern.ok THEN "crash"
    ELSE IF IcuMatches(pattern, ToUnicodeString(text)) THEN "true" ELSE "false"

IsKiwiIRCOnly(pattern, text) ==
    IF ~pattern.ok THEN "crash"
    ELSE IF IcuMatches(pattern, ToUnicodeString(text)) THEN "true" ELSE "false"

\* the fast path of IsAllowed: every byte in 0x20..0x7E
AllPrintable(text) == \A i \in 1..Len(text) : text[i] >= 32 /\ text[i] <= 126

\* the rest of IsAllowed once the whitelist scan has returned m
AfterWhitelist(m, emoji, kiwiirc, text) ==
    IF m.matched
    THEN [ret |-> "true", strm |-> m.strm, err |-> m.err, invoked |-> {"whitelist"}]
    ELSE LET e == IsEmojiOnly(emoji, text) IN
         IF e # "false"
         THEN [ret |-> e, strm |-> m.strm, err |-> m.err,
               invoked |-> {"whitelist", "emoji"}]
         ELSE [ret |-> IsKiwiIRCOnly(kiwiirc, text), strm |-> m.strm, err |-> m.err,
               invoked |-> {"whitelist", "emoji", "kiwiirc"}]

\* IsAllowed without its fast path
IsAllowed_NoFastPath(strm, scr, emoji, kiwiirc, text) ==
    {AfterWhitelist(m, emoji, kiwiirc, text) : m \in IsMatch(strm, scr, text)}

IsAllowed(strm, scr, emoji, kiwiirc, text) ==
    IF AllPrintable(text)
    THEN {[ret |-> "true", strm |-> strm, err |-> FALSE, invoked |-> {}]}
    ELSE {AfterWhitelist(m, emoji, kiwiirc, text) : m \in IsMatch(strm, scr, text)}

(***************************************************************************)
(* The inputs the model draws from.                                        *)
(***************************************************************************)
\* the non-ASCII characters messages are built from: e-acute, Cyrillic De and
\* the smiley U+263A, each as its UTF-8 bytes
Chars == {<<195, 169>>, <<208, 148>>, <<226, 152, 186>>}

RECURSIVE Concat(_)
Concat(ss) == IF ss = <<>> THEN <<>> ELSE Head(ss) \o Concat(Tail(ss))

\* "hello", "h<e-acute>llo", "hello<De>" and the Cyrillic "Dobryj Den" in one word
TextHello == <<104, 101, 108, 108, 111>>
TextHeAcutello == <<104, 195, 169, 108, 108, 111>>
TextHelloDe == <<104, 101, 108, 108, 111, 208, 148>>
TextDobryjDen ==
    <<208, 148, 208, 190, 208, 177, 209, 128, 209, 139, 208, 185,
      208, 148, 208, 181, 208, 189, 209, 140>>

\* a text that is not UTF-8: the single byte 0xE9 (e-acute in ISO-8859-1)
TextLatin1 == <<233>>

\* "a", "A", "aA", "<e-acute>a", "this has foobar in it", "this is bad, very
\* bad", and the texts above
Samples ==
    {<<97>>, <<65>>, <<97, 65>>, <<195, 169, 97>>,
     TextHello, TextHeAcutello, TextHelloDe, TextDobryjDen, TextLatin1,
     <<116, 104, 105, 115, 32, 104, 97, 115, 32, 102, 111, 111, 98, 97, 114,
       32, 105, 110, 32, 105, 116>>,
     <<116, 104, 105, 115, 32, 105, 115, 32, 98, 97, 100, 44, 32, 118, 101,
       114, 121, 32, 98, 97, 100>>}

Texts ==
    {Concat(ss) : ss \in UNION {[1..n -> Chars] : n \in 0..MaxChars}} \cup Samples

\* pattern sources: ^[e-acute]+ , e-acute De , ^[e-acute]+$ , [A-Za-z ]+ ,
\* ^[smiley]+$ , De , a malformed one (a lone +) and the empty one
WlAnchored == <<Caret, Class({233}), Plus>>
WlSequence == <<Class({233}), Class({1044})>>
WlWhole == <<Caret, Class({233}), Plus, Dollar>>
WlLetters == <<Class((65..90) \cup (97..122) \cup {32}), Plus>>
EmojiSrc == <<Caret, Class({9786}), Plus, Dollar>>
KiwiSrc == <<Class({1044})>>
Malformed == <<Plus>>
EmptySrc == <<>>

Tag(text, replace) == [text |-> text, replace |-> replace]

Conf(badwords, emoji, whitelist, kiwiirc) ==
    [badwords |-> badwords, emojiregex |-> emoji, whitelistregex |-> whitelist,
     kiwiircregex |-> kiwiirc]

\* the <badword> lists: foo -> "" and foobar -> baz in both orders, bad -> good,
\* a -> aa, a -> A, (a -> b, b -> ""), (a -> c, e-acute -> a), (a -> b, A -> ""),
\* and a tag with an empty text
BadwordLists ==
    {<<Tag(<<102, 111, 111>>, <<>>), Tag(<<102, 111, 111, 98, 97, 114>>, <<98, 97, 122>>)>>,
     <<Tag(<<102, 111, 111, 98, 97, 114>>, <<98, 97, 122>>), Tag(<<102, 111, 111>>, <<>>)>>,
     <<Tag(<<98, 97, 100>>, <<103, 111, 111, 100>>)>>,
     <<Tag(<<97>>, <<97, 97>>)>>,
     <<Tag(<<97>>, <<65>>)>>,
     <<Tag(<<97>>, <<98>>), Tag(<<98>>, <<>>)>>,
     <<Tag(<<97>>, <<99>>), Tag(<<195, 169>>, <<97>>)>>,
     <<Tag(<<97>>, <<98>>), Tag(<<65>>, <<>>)>>,
     <<Tag(<<98>>, <<97>>), Tag(<<>>, <<97>>)>>}

Configs ==
    {Conf(bw, EmojiSrc, WlAnchored, KiwiSrc) : bw \in BadwordLists}
        \cup {Conf(<<>>, EmojiSrc, wl, KiwiSrc) :
                  wl \in {WlSequence, WlWhole, WlLetters, Malformed}}
        \cup {Conf(<<>>, Malformed, WlAnchored, KiwiSrc),
              Conf(<<>>, EmojiSrc, WlAnchored, Malformed),
              Conf(<<>>, EmptySrc, WlAnchored, KiwiSrc),
              Conf(<<>>, EmptySrc, EmptySrc, EmptySrc)}

\* what can fail while a configuration is read: opening the cache file for
\* reading or for writing, hs_alloc_scratch, hs_open_stream
Faults == {"none", "read", "write", "scratch", "stream"}

\* who sends to what: locality and oper status of the sender, the target's
\* type, whether the target has mode G, and the answer of the exemption check
Sender(local, oper, ttype, mode, exempt) ==
    [local |-> local, oper |-> oper, ttype |-> ttype, mode |-> mode, exempt |-> exempt]

Contexts ==
    {Sender(FALSE, FALSE, "TYPE_CHANNEL", TRUE, "MOD_RES_PASSTHRU"),
     Sender(TRUE, TRUE, "TYPE_CHANNEL", TRUE, "MOD_RES_PASSTHRU"),
     Sender(TRUE, FALSE, "TYPE_USER", FALSE, "MOD_RES_PASSTHRU"),
     Sender(TRUE, FALSE, "TYPE_USER", TRUE, "MOD_RES_PASSTHRU"),
     Sender(TRUE, FALSE, "TYPE_CHANNEL", FALSE, "MOD_RES_PASSTHRU"),
     Sender(TRUE, FALSE, "TYPE_CHANNEL", TRUE, "MOD_RES_ALLOW"),
     Sender(TRUE, FALSE, "TYPE_CHANNEL", TRUE, "MOD_RES_PASSTHRU"),
     Sender(TRUE, FALSE, "TYPE_SERVER", FALSE, "MOD_RES_PASSTHRU")}

(***************************************************************************)
(* State.                                                                  *)
(***************************************************************************)
VARIABLES
    locale,               \* the process locale <cctype> answers for
    active,               \* the module is loaded and its hooks are attached
    rehashes,             \* number of rehashes so far
    conftags,             \* the <badword> tags of the configuration last read
    confvalue,            \* the <censorplus> tag of the configuration last read
    lastload,             \* how the last ReadConfig ended: "ok" or what it threw for
    rehash_pending,       \* a rehash has been requested and not yet run
    cachefile,            \* whitelist.hsdb: the serialized database, or none
    censors,              \* CensorMap censors
    emoji_pattern,        \* std::unique_ptr<icu::RegexPattern>
    kiwiirc_pattern,      \* std::unique_ptr<icu::RegexPattern>
    whitelist_regex_str,
    whitelist_db,         \* hs_database_t*
    scratch,              \* hs_scratch_t* is non-null
    stream,               \* hs_stream_t*: its database and automaton state
    pc,                   \* "idle", "scan" (in the rule loop), "done", "crashed"
    call,                 \* the hook's arguments: sender context and original text
    details_text,         \* details.text, rewritten in place
    ri,                   \* the rule the for loop is at (1-based)
    iters,                \* passes of the while loop so far, modulo IterWrap
    result,               \* the ModResult returned
    sno,                  \* announcements written to snomask 'a' by this call
    numerics,             \* CannotSendTo numerics written to the sender
    threw,                \* the catch block of the hook ran
    invoked,              \* the matchers this call invoked
    chk,                  \* what IsMixedUTF8 and IsAllowed returned to this call
    scan_err,             \* hs_scan_stream failed in this call
    seen,                 \* seen[j]: the text when the loop left rule j
    hs_live,              \* Hyperscan objects obtained and not yet released, by kind
    hs_stale,             \* a released object has been handed to a Hyperscan call
    users,                \* m_allsend: ServerInstance->Users.GetLocalUsers()
    as_user,              \* m_allsend: the user the last ALLSEND came from
    as_sent,              \* m_allsend: what the last ALLSEND sent, and to whom
    as_reply,             \* m_allsend: the notice written back to its user
    as_result,            \* m_allsend: the CmdResult of the last ALLSEND
    ports,                \* m_recaptcha: std::unordered_set<int> ports
    ip_cache,             \* m_recaptcha: ip -> the time its entry expires
    alloweduser,          \* m_recaptcha: the ip_address column of ircaccess_alloweduser
    now,                  \* m_recaptcha: std::chrono::steady_clock::now(), in minutes
    reg,                  \* m_recaptcha: the last OnUserRegister, what it saw and did
    wikiCache,            \* m_wiki: WikiMap wikiCache, keyword -> slugs
    wiki_entries,         \* m_wiki: the rows (keyword, slug) of the table wiki_entries
    sqlqueue,             \* m_wiki: queries submitted to the provider, not yet run
    sqlresults            \* m_wiki: queries run, their callbacks not yet called

members == <<censors, emoji_pattern, kiwiirc_pattern, whitelist_regex_str,
             whitelist_db, scratch, stream>>
percall == <<call, details_text, ri, iters, result, sno, numerics, threw,
             invoked, chk, scan_err, seen>>
config == <<conftags, confvalue>>
hs == <<hs_live, hs_stale>>
allsend == <<users, as_user, as_sent, as_reply, as_result>>
\* the variables of the modules other than m_censorplus
recaptcha == <<ports, ip_cache, alloweduser, now, reg>>
wiki == <<wikiCache, wiki_entries, sqlqueue, sqlresults>>
othermods == <<allsend, recaptcha, wiki>>
vars == <<locale, active, rehashes, rehash_pending, config, lastload, cachefile,
          members, pc, percall, hs, othermods>>

\* m_allsend: no command handled yet
NoUser == [nick |-> "", oper |-> FALSE]

\* m_recaptcha: an ip without an entry in ip_cache, and no registration yet
NoEntry == -1

NoReg ==
    [ip |-> "", port |-> 0, sasl |-> FALSE, fault |-> "none", at |-> 0,
     entry |-> NoEntry, listed |-> FALSE, checked |-> FALSE, result |-> "NONE",
     quit |-> FALSE]

\* no <censorplus> tag read yet
NoTag == [emojiregex |-> <<>>, whitelistregex |-> <<>>, kiwiircregex |-> <<>>]

\* the <censorplus> tag of a configuration
ConfValue(cfg) ==
    [emojiregex |-> cfg.emojiregex, whitelistregex |-> cfg.whitelistregex,
     kiwiircregex |-> cfg.kiwiircregex]

NoCall == Sender(FALSE, FALSE, "TYPE_SERVER", FALSE, "MOD_RES_PASSTHRU")
NoChk == [mixed |-> FALSE, allowed |-> "skipped"]

\* the per-call variables between two calls
Cleared ==
    /\ call = [ctx |-> NoCall, text |-> <<>>]
    /\ details_text = <<>>
    /\ ri = 0
    /\ iters = 0
    /\ result = "NONE"
    /\ sno = <<>>
    /\ numerics = <<>>
    /\ threw = FALSE
    /\ invoked = {}
    /\ chk = NoChk
    /\ scan_err = FALSE
    /\ seen = <<>>

\* a ModuleCensor as constructed: no rules, null pointers
Fresh ==
    [censors |-> <<>>, emoji_pattern |-> NullPattern, kiwiirc_pattern |-> NullPattern,
     whitelist_regex_str |-> <<>>, whitelist_db |-> NullPattern, scratch |-> FALSE,
     stream |-> NullStream]

Current ==
    [censors |-> censors, emoji_pattern |-> emoji_pattern,
     kiwiirc_pattern |-> kiwiirc_pattern, whitelist_regex_str |-> whitelist_regex_str,
     whitelist_db |-> whitelist_db, scratch |-> scratch, stream |-> stream]

Init ==
    /\ locale \in Locales
    /\ active = FALSE
    /\ rehashes = 0
    /\ conftags = <<>>
    /\ confvalue = NoTag
    /\ lastload = "none"
    /\ rehash_pending = FALSE
    /\ cachefile = NullPattern
    /\ censors = Fresh.censors
    /\ emoji_pattern = Fresh.emoji_pattern
    /\ kiwiirc_pattern = Fresh.kiwiirc_pattern
    /\ whitelist_regex_str = Fresh.whitelist_regex_str
    /\ whitelist_db = Fresh.whitelist_db
    /\ scratch = Fresh.scratch
    /\ stream = Fresh.stream
    /\ pc = "idle"
    /\ Cleared
    /\ hs_live = [db |-> 0, scratch |-> 0, stream |-> 0]
    /\ hs_stale = FALSE
    /\ users = {}
    /\ as_user = NoUser
    /\ as_sent = {}
    /\ as_reply = "none"
    /\ as_result = "NONE"
    /\ ports = {}
    /\ ip_cache = <<>>
    /\ alloweduser = {}
    /\ now = 0
    /\ reg = NoReg
    /\ wikiCache = <<>>
    /\ wiki_entries = {}
    /\ sqlqueue = <<>>
    /\ sqlresults = <<>>

(***************************************************************************)
(* ReadConfig.  m is the module's members when it is called, cache the     *)
(* cache file; the result is the members and the file when it returns or   *)
(* throws ModuleException.                                                 *)
(***************************************************************************)
Thrown(m, cache, what) == [m |-> m, cachefile |-> cache, threw |-> TRUE, what |-> what]

\* lines 222-228: hs_alloc_scratch, then hs_open_stream
AllocAndOpen(m, cache, fault) ==
    IF fault = "scratch" THEN Thrown([m EXCEPT !.scratch = FALSE], cache, "scratch")
    ELSE LET m1 == [m EXCEPT !.scratch = TRUE] IN
         IF fault = "stream" THEN Thrown(m1, cache, "stream")
         ELSE [m |-> [m1 EXCEPT !.stream = OpenStream(m1.whitelist_db)],
               cachefile |-> cache, threw |-> FALSE, what |-> "ok"]

\* lines 215-220: the database comes from the cache file when it can be read,
\* else it is compiled from the configured source and written to the file
LoadWhitelist(m, cache, fault) ==
    IF cache.ok /\ fault # "read"
    THEN AllocAndOpen([m EXCEPT !.whitelist_db = cache], cache, fault)
    ELSE LET db == HsCompile(m.whitelist_regex_str)
             m1 == [m EXCEPT !.whitelist_db = db]
         IN  IF ~db.ok \/ fault = "write" THEN Thrown(m1, cache, "whitelist")
             ELSE AllocAndOpen(m1, db, fault)

\* lines 198-213: the two ICU patterns; each pointer is assigned before the
\* status of its compilation is looked at
CompileIcu(m, cache, cfg, fault) ==
    LET m1 == [m EXCEPT !.whitelist_regex_str = cfg.whitelistregex,
                        !.emoji_pattern = IcuCompile(cfg.emojiregex)]
        m2 == [m1 EXCEPT !.kiwiirc_pattern = IcuCompile(cfg.kiwiircregex)]
    IN  IF ~m1.emoji_pattern.ok THEN Thrown(m1, cache, "emoji")
        ELSE IF ~m2.kiwiirc_pattern.ok THEN Thrown(m2, cache, "kiwiirc")
        ELSE LoadWhitelist(m2, cache, fault)

\* ReadConfig assigning the rules into the live map instead of a map built aside
ReadConfig_InPlace(m, cache, cfg, fault) ==
    LET empty == {i \in 1..Len(cfg.badwords) : cfg.badwords[i].text = <<>>}
        first == CHOOSE i \in empty : \A j \in empty : i <= j
    IN  IF empty # {}
        THEN Thrown([m EXCEPT !.censors =
                        BuildCensors(SubSeq(cfg.badwords, 1, first - 1), m.censors)],
                    cache, "badword")
        ELSE CompileIcu([m EXCEPT !.censors = BuildCensors(cfg.badwords, m.censors)],
                        cache, cfg, fault)

\* lines 187-196: the rules are built aside and swapped in
ReadConfig(m, cache, cfg, fault) ==
    IF \E i \in 1..Len(cfg.badwords) : cfg.badwords[i].text = <<>>
    THEN Thrown(m, cache, "badword")
    ELSE CompileIcu([m EXCEPT !.censors = BuildCensors(cfg.badwords, <<>>)],
                    cache, cfg, fault)

\* the Hyperscan objects live after the ReadConfig that ended as r: a database
\* read from the file or compiled (lines 216-217) and a stream opened (line
\* 226) are new objects whose pointers overwrite the members; hs_alloc_scratch
\* (line 222) keeps or replaces the block it is given, and is taken to have
\* freed it when it fails
Obtain(live, r) ==
    [db |-> IF \/ r.what \in {"scratch", "stream", "ok"}
               \/ r.what = "whitelist" /\ r.m.whitelist_db.ok
            THEN live.db + 1 ELSE live.db,
     scratch |-> IF r.what \in {"stream", "ok"} THEN 1
                 ELSE IF r.what = "scratch" THEN 0 ELSE live.scratch,
     stream |-> IF r.what = "ok" THEN live.stream + 1 ELSE live.stream]

\* lines 177-184, the destructor of a module with members m: the database is
\* freed, then the scratch space, then the stream is closed
Destroy(live, m) ==
    [db |-> IF m.whitelist_db.ok THEN live.db - 1 ELSE live.db,
     scratch |-> IF m.scratch THEN live.scratch - 1 ELSE live.scratch,
     stream |-> IF m.stream.ok THEN live.stream - 1 ELSE live.stream]

\* line 183 hands hs_close_stream the scratch space line 181 has freed
ClosedWithFreed(m) == m.scratch /\ m.stream.ok

SetMembers(m) ==
    /\ censors' = m.censors
    /\ emoji_pattern' = m.emoji_pattern
    /\ kiwiirc_pattern' = m.kiwiirc_pattern
    /\ whitelist_regex_str' = m.whitelist_regex_str
    /\ whitelist_db' = m.whitelist_db
    /\ scratch' = m.scratch
    /\ stream' = m.stream

\* the module is loaded: constructed, then ReadConfig; if that throws the
\* module is destroyed again and stays unloaded
LoadModule ==
    /\ ~active /\ pc = "idle"
    /\ \E cfg \in Configs, fault \in Faults :
         LET r == ReadConfig(Fresh, cachefile, cfg, fault) IN
         /\ conftags' = cfg.badwords
         /\ confvalue' = ConfValue(cfg)
         /\ lastload' = r.what
         /\ active' = ~r.threw
         /\ SetMembers(IF r.threw THEN Fresh ELSE r.m)
         /\ cachefile' = r.cachefile
         /\ hs_live' = IF r.threw THEN Destroy(Obtain(hs_live, r), r.m)
                       ELSE Obtain(hs_live, r)
         /\ hs_stale' = (hs_stale \/ (r.threw /\ ClosedWithFreed(r.m)))
    /\ UNCHANGED <<locale, rehashes, rehash_pending, pc, percall, othermods>>

\* a rehash is requested (the REHASH command, SIGHUP) at any moment, also
\* while a hook is running; the host runs it from its event loop
RequestRehash ==
    /\ active /\ ~rehash_pending /\ pc # "crashed" /\ rehashes < MaxRehashes
    /\ rehash_pending' = TRUE
    /\ UNCHANGED <<locale, active, rehashes, config, lastload, cachefile, members,
                   pc, percall, hs, othermods>>

\* the rehash runs once no hook is running: it calls ReadConfig on the loaded
\* module; an exception is logged by the host and the module stays loaded
\* with whatever ReadConfig left behind
Rehash ==
    /\ active /\ pc = "idle" /\ rehash_pending
    /\ \E cfg \in Configs, fault \in Faults :
         LET r == ReadConfig(Current, cachefile, cfg, fault) IN
         /\ conftags' = cfg.badwords
         /\ confvalue' = ConfValue(cfg)
         /\ lastload' = r.what
         /\ SetMembers(r.m)
         /\ cachefile' = r.cachefile
         /\ hs_live' = Obtain(hs_live, r)
    /\ rehashes' = rehashes + 1
    /\ rehash_pending' = FALSE
    /\ UNCHANGED <<locale, active, pc, percall, hs_stale, othermods>>

\* the module is unloaded between hooks: its destructor runs
Unload ==
    /\ active /\ pc = "idle"
    /\ active' = FALSE
    /\ rehash_pending' = FALSE
    /\ hs_live' = Destroy(hs_live, Current)
    /\ hs_stale' = (hs_stale \/ ClosedWithFreed(Current))
    /\ SetMembers(Fresh)
    /\ UNCHANGED <<locale, rehashes, config, lastload, cachefile, pc, percall,
                   othermods>>

(***************************************************************************)
(* OnUserPreMessage.  The host runs one hook at a time, to completion; the *)
(* rule loop is taken one pass at a time so that a loop that never ends    *)
(* is a behaviour of the model.                                            *)
(***************************************************************************)
\* Gated with the operator bypass left out
Gated_NoOper(ctx) ==
    \/ ~ctx.local
    \/ ctx.ttype = "TYPE_USER" /\ ~ctx.mode
    \/ ctx.ttype = "TYPE_CHANNEL" /\ (~ctx.mode \/ ctx.exempt = "MOD_RES_ALLOW")
    \/ ctx.ttype \notin {"TYPE_USER", "TYPE_CHANNEL"}

\* Gated without the test of the target user's mode
Gated_NoUserMode(ctx) ==
    \/ ~ctx.local
    \/ ctx.oper
    \/ ctx.ttype = "TYPE_CHANNEL" /\ (~ctx.mode \/ ctx.exempt = "MOD_RES_ALLOW")
    \/ ctx.ttype \notin {"TYPE_USER", "TYPE_CHANNEL"}

\* lines 232-261: the early returns before any check
Gated(ctx) ==
    \/ ~ctx.local
    \/ ctx.oper
    \/ ctx.ttype = "TYPE_USER" /\ ~ctx.mode
    \/ ctx.ttype = "TYPE_CHANNEL" /\ (~ctx.mode \/ ctx.exempt = "MOD_RES_ALLOW")
    \/ ctx.ttype \notin {"TYPE_USER", "TYPE_CHANNEL"}

\* CharsetBlocked with && in the place of ||
CharsetBlocked_Both(mixed, a) == mixed /\ a.ret = "false"

\* line 263: IsMixedUTF8(text) || !IsAllowed(text), a being what IsAllowed does
CharsetBlocked(mixed, a) == mixed \/ a.ret = "false"

\* Announce written without the target
Announce_NoTarget(kind, ctx, phrase, text) ==
    [kind |-> kind, target |-> "TYPE_SERVER", phrase |-> phrase, text |-> text]

\* the announcement to snomask 'a' and the numeric to the sender
Announce(kind, ctx, phrase, text) ==
    [kind |-> kind, target |-> ctx.ttype, phrase |-> phrase, text |-> text]

CannotSendTo(ctx, phrase) == [target |-> ctx.ttype, phrase |-> phrase]

\* IsAllowed is not reached by a call that returns at one of the gates
NotCalled(strm) == [ret |-> "skipped", strm |-> strm, err |-> FALSE, invoked |-> {}]

\* the hook called with (ctx, text), from its entry to its return or to the
\* head of the rule loop
Hook(ctx, text) ==
    /\ active /\ pc = "idle"
    /\ \E a \in IF Gated(ctx) THEN {NotCalled(stream)}
               ELSE IsAllowed(stream, scratch, emoji_pattern, kiwiirc_pattern, text) :
         LET mixed == IsMixedUTF8(locale, text)
             crash == ~Gated(ctx) /\ ~mixed /\ a.ret = "crash"
             deny  == ~Gated(ctx) /\ ~crash /\ CharsetBlocked(mixed, a)
             toscan == ~Gated(ctx) /\ ~crash /\ ~deny
         IN  /\ call' = [ctx |-> ctx, text |-> text]
             /\ details_text' = text
             /\ pc' = IF crash THEN "crashed" ELSE IF toscan THEN "scan" ELSE "done"
             /\ result' = IF deny THEN "MOD_RES_DENY"
                          ELSE IF Gated(ctx) THEN "MOD_RES_PASSTHRU" ELSE "NONE"
             /\ sno' = IF deny
                       THEN <<Announce("MixedCharacterUTF8", ctx, <<>>, text)>>
                       ELSE <<>>
             /\ numerics' = IF deny THEN <<CannotSendTo(ctx, <<>>)>> ELSE <<>>
             /\ chk' = IF Gated(ctx) THEN NoChk
                       ELSE [mixed |-> mixed,
                             allowed |-> IF mixed THEN "skipped" ELSE a.ret]
             /\ invoked' = IF Gated(ctx) \/ mixed THEN {} ELSE a.invoked
             /\ scan_err' = IF Gated(ctx) \/ mixed THEN FALSE ELSE a.err
             /\ stream' = IF Gated(ctx) \/ mixed THEN stream ELSE a.strm
             /\ ri' = IF toscan THEN 1 ELSE 0
    /\ iters' = 0
    /\ threw' = FALSE
    /\ seen' = <<>>
    /\ UNCHANGED <<locale, active, rehashes, rehash_pending, config, lastload, cachefile,
                   censors, emoji_pattern, kiwiirc_pattern, whitelist_regex_str,
                   whitelist_db, scratch, hs, othermods>>

\* any sender sends any text to any target
OnUserPreMessage == \E ctx \in Contexts, text \in Texts : Hook(ctx, text)

\* Decide with the empty replacement substituted like any other
Decide_NoReject(text, find, replace) ==
    LET censorpos == Find(text, find) IN
    IF censorpos = NPOS THEN "next"
    ELSE IF Len(Replace(text, censorpos, Len(find), replace)) > MaxTextLen THEN "throw"
    ELSE "replace"

\* lines 285-308, one pass of the while loop over rule (find, replace): the
\* phrase is not found ("next"), found with an empty replacement ("deny"),
\* found and replaced ("replace"), or the replacement overflows the string
\* and std::string::replace throws std::length_error ("throw")
Decide(text, find, replace) ==
    LET censorpos == Find(text, find) IN
    IF censorpos = NPOS THEN "next"
    ELSE IF replace = <<>> THEN "deny"
    ELSE IF Len(Replace(text, censorpos, Len(find), replace)) > MaxTextLen THEN "throw"
    ELSE "replace"

\* lines 283-315: one pass of the while loop of the current rule, or the end
\* of the for loop and the final return
ScanStep ==
    /\ pc = "scan"
    /\ IF ri > Len(censors)
       THEN /\ pc' = "done"
            /\ result' = "MOD_RES_PASSTHRU"
            /\ UNCHANGED <<details_text, ri, iters, sno, numerics, threw, seen>>
       ELSE LET find == censors[ri].find
                replace == censors[ri].replace
                what == Decide(details_text, find, replace)
            IN  CASE what = "next" ->
                     /\ ri' = ri + 1
                     /\ iters' = 0
                     /\ seen' = Append(seen, details_text)
                     /\ UNCHANGED <<pc, details_text, result, sno, numerics, threw>>
                  [] what = "deny" ->
                     /\ pc' = "done"
                     /\ result' = "MOD_RES_DENY"
                     /\ sno' = Append(sno, Announce("CensorPlus", call.ctx, find,
                                                    details_text))
                     /\ numerics' = Append(numerics, CannotSendTo(call.ctx, find))
                     /\ UNCHANGED <<details_text, ri, iters, threw, seen>>
                  [] what = "throw" ->
                     \* caught at line 311, logged, and the hook falls to line 315
                     /\ pc' = "done"
                     /\ threw' = TRUE
                     /\ result' = "MOD_RES_PASSTHRU"
                     /\ UNCHANGED <<details_text, ri, iters, sno, numerics, seen>>
                  [] what = "replace" ->
                     /\ details_text' = Replace(details_text, Find(details_text, find),
                                                Len(find), replace)
                     /\ iters' = (iters + 1) % IterWrap
                     /\ UNCHANGED <<pc, ri, result, sno, numerics, threw, seen>>
    /\ UNCHANGED <<locale, active, rehashes, rehash_pending, config, lastload, cachefile,
                   members, call, invoked, chk, scan_err, hs, othermods>>

\* the host takes the verdict and the text; the hook's frame is gone
Return ==
    /\ pc = "done"
    /\ pc' = "idle"
    /\ call' = [ctx |-> NoCall, text |-> <<>>]
    /\ details_text' = <<>>
    /\ ri' = 0
    /\ iters' = 0
    /\ result' = "NONE"
    /\ sno' = <<>>
    /\ numerics' = <<>>
    /\ threw' = FALSE
    /\ invoked' = {}
    /\ chk' = NoChk
    /\ scan_err' = FALSE
    /\ seen' = <<>>
    /\ UNCHANGED <<locale, active, rehashes, rehash_pending, config, lastload, cachefile,
                   members, hs, othermods>>

\* the module from its load on, serving messages
Next == LoadModule \/ OnUserPreMessage \/ ScanStep \/ Return

Spec == Init /\ [][Next]_vars

\* the host keeps running a hook it has entered
FairSpec == Spec /\ WF_vars(ScanStep)

\* the module across rehashes, probed with single characters sent by a
\* non-exempt sender to a user and to a channel that have mode G
ProbeTexts == {<<>>, <<97>>} \cup Chars

ProbeContexts ==
    {ctx \in Contexts : ~Gated(ctx)}

Probe == \E ctx \in ProbeContexts, text \in ProbeTexts : Hook(ctx, text)

ReloadNext == LoadModule \/ RequestRehash \/ Rehash \/ Probe \/ ScanStep \/ Return

ReloadSpec == Init /\ [][ReloadNext]_vars

\* the module's life: loaded, rehashed, unloaded, loaded again
LifecycleNext == LoadModule \/ RequestRehash \/ Rehash \/ Unload

LifecycleSpec == Init /\ [][LifecycleNext]_vars

(***************************************************************************)
(* m_allsend: the ALLSEND command.                                         *)
(***************************************************************************)
\* the variables of m_censorplus
censorplus == <<locale, active, rehashes, rehash_pending, config, lastload, cachefile,
                members, pc, percall, hs>>

\* the users that may be connected to this server, opers and others
AllUsers ==
    {[nick |-> "alice", oper |-> FALSE], [nick |-> "bob", oper |-> FALSE],
     [nick |-> "carol", oper |-> TRUE], [nick |-> "dave", oper |-> TRUE]}

\* parameters[0], parameters[1], parameters[2] and parameters[3]
Targets == {"opers", "users", "all", "staff"}
Modes == {"notice", "private"}
Scopes == {"local", "global"}
Messages == {"maintenance at noon"}

\* a user connects to this server, or leaves it
UserConnect ==
    /\ \E u \in AllUsers \ users : users' = users \cup {u}
    /\ UNCHANGED <<censorplus, as_user, as_sent, as_reply, as_result, recaptcha, wiki>>

UserQuit ==
    /\ \E u \in users : users' = users \ {u}
    /\ UNCHANGED <<censorplus, as_user, as_sent, as_reply, as_result, recaptcha, wiki>>

\* lines 47-59, sendMessage: a notice, or a PRIVMSG issued as the user
SendMessage(recipient, mode, message) ==
    [to |-> recipient.nick,
     how |-> IF mode = "notice" THEN "NOTICE" ELSE "PRIVMSG",
     text |-> message]

\* lines 72-92: the predicate of each target; every user of the local list
\* is local, so the scope does not narrow it
Selected(target, scope, recipient) ==
    /\ scope = "local" => recipient \in users
    /\ CASE target = "opers" -> recipient.oper
         [] target = "users" -> ~recipient.oper
         [] target = "all" -> TRUE
         [] OTHER -> FALSE

\* lines 37-100, CommandAllSend::Handle called for user with four parameters
AllSendHandle ==
    /\ \E user \in users, target \in Targets, mode \in Modes, scope \in Scopes,
          message \in Messages :
         /\ as_user' = user
         /\ as_sent' = IF target \in {"opers", "users", "all"}
                       THEN {SendMessage(r, mode, message) :
                               r \in {x \in users : Selected(target, scope, x)}}
                       ELSE {}
         /\ as_reply' = CASE target = "opers" -> "Message sent to all opers."
                          [] target = "users" -> "Message sent to all users."
                          [] target = "all" -> "Message sent to everyone."
                          [] OTHER -> "Error: Invalid target."
         /\ as_result' = IF target \in {"opers", "users", "all"}
                         THEN "SUCCESS" ELSE "FAILURE"
    /\ UNCHANGED <<censorplus, users, recaptcha, wiki>>

AllSendNext == UserConnect \/ UserQuit \/ AllSendHandle

AllSendSpec == Init /\ [][AllSendNext]_vars

(***************************************************************************)
(* m_recaptcha: registration gated on the table ircaccess_alloweduser.     *)
(***************************************************************************)
CACHE_DURATION_MINUTES == 10

\* the clock is followed up to MaxNow minutes
MaxNow == 10

IPs == {"192.0.2.1", "192.0.2.2"}

\* the port a user connects to, and the <captchaconfig:ports> lists
ServerPorts == {6667, 6697}
PortLists == {<<>>, <<6667>>}

\* what the database does when CheckCaptcha turns to it: it answers, the
\* connection cannot be made, or the query fails
DbFaults == {"none", "connect", "query"}

\* lines 60-97: an empty port list throws before ports is touched
CaptchaReadConfig ==
    /\ \E portlist \in PortLists :
         ports' = IF portlist = <<>> THEN ports
                  ELSE {portlist[i] : i \in 1..Len(portlist)}
    /\ UNCHANGED <<censorplus, allsend, wiki, ip_cache, alloweduser, now, reg>>

\* a row is added to the table (RECAPTCHA add, lines 230-251, or the web
\* site after a solved challenge), or removed from it
TableAdd ==
    /\ \E ip \in IPs \ alloweduser : alloweduser' = alloweduser \cup {ip}
    /\ UNCHANGED <<censorplus, allsend, wiki, ports, ip_cache, now, reg>>

TableRemove ==
    /\ \E ip \in alloweduser : alloweduser' = alloweduser \ {ip}
    /\ UNCHANGED <<censorplus, allsend, wiki, ports, ip_cache, now, reg>>

\* half the life of a cache entry passes
Tick ==
    /\ now + CACHE_DURATION_MINUTES \div 2 <= MaxNow
    /\ now' = now + CACHE_DURATION_MINUTES \div 2
    /\ UNCHANGED <<censorplus, allsend, wiki, ports, ip_cache, alloweduser, reg>>

\* the entry of ip in the cache, NoEntry if ip_cache.find(ip) finds none
Entry(cache, ip) == IF ip \in DOMAIN cache THEN cache[ip] ELSE NoEntry

\* CheckCaptcha answering from an entry of the cache however old it is
CheckCaptcha_NoExpiry(cache, t, tbl, ip, fault) ==
    IF Entry(cache, ip) # NoEntry
    THEN [ret |-> TRUE, cache |-> cache]
    ELSE IF fault = "connect" THEN [ret |-> TRUE, cache |-> cache]
    ELSE IF fault = "query" THEN [ret |-> TRUE, cache |-> cache]
    ELSE IF ip \in tbl
    THEN [ret |-> TRUE,
          cache |-> [x \in DOMAIN cache \cup {ip} |->
                        IF x = ip THEN t + CACHE_DURATION_MINUTES ELSE cache[x]]]
    ELSE [ret |-> FALSE, cache |-> cache]

\* lines 107-144, CheckCaptcha(ip) at time t with the table tbl: its answer
\* and the cache it leaves
CheckCaptcha(cache, t, tbl, ip, fault) ==
    IF Entry(cache, ip) # NoEntry /\ t < Entry(cache, ip)
    THEN [ret |-> TRUE, cache |-> cache]
    ELSE IF fault = "connect" THEN [ret |-> TRUE, cache |-> cache]
    ELSE IF fault = "query" THEN [ret |-> TRUE, cache |-> cache]
    ELSE IF ip \in tbl
    THEN [ret |-> TRUE,
          cache |-> [x \in DOMAIN cache \cup {ip} |->
                        IF x = ip THEN t + CACHE_DURATION_MINUTES ELSE cache[x]]]
    ELSE [ret |-> FALSE, cache |-> cache]

\* lines 156-191, OnUserRegister for a user from ip on port, with or without
\* the sasl-state extension set
OnUserRegister ==
    /\ \E ip \in IPs, port \in ServerPorts, sasl \in BOOLEAN, fault \in DbFaults :
         LET bypass == sasl \/ port \notin ports
             c == CheckCaptcha(ip_cache, now, alloweduser, ip, fault)
             deny == ~bypass /\ ~c.ret
         IN  /\ ip_cache' = IF bypass THEN ip_cache ELSE c.cache
             /\ reg' = [ip |-> ip, port |-> port, sasl |-> sasl,
                        fault |-> IF bypass THEN "none" ELSE fault,
                        at |-> now, entry |-> Entry(ip_cache, ip),
                        listed |-> ip \in alloweduser, checked |-> port \in ports,
                        result |-> IF deny THEN "MOD_RES_DENY" ELSE "MOD_RES_PASSTHRU",
                        quit |-> deny]
    /\ UNCHANGED <<censorplus, allsend, wiki, ports, alloweduser, now>>

CaptchaNext == CaptchaReadConfig \/ TableAdd \/ TableRemove \/ Tick \/ OnUserRegister

CaptchaSpec == Init /\ [][CaptchaNext]_vars

(***************************************************************************)
(* m_wiki: the keyword -> slugs cache kept beside the table wiki_entries.  *)
(* Queries are submitted to the SQL provider, which runs them in order on  *)
(* its own thread; the callbacks run later on the main thread.             *)
(***************************************************************************)
\* queries submitted and not yet answered are followed up to MaxQueries
MaxQueries == 2

Keywords == {"help"}
Slugs == {"Help", "FAQ"}

Query(op, key, slug) == [op |-> op, key |-> key, slug |-> slug]

\* lines 98-103
AddWikiEntry(cache, keyword, slug) ==
    LET slugs == IF keyword \in DOMAIN cache THEN cache[keyword] ELSE <<>>
        added == IF \E i \in 1..Len(slugs) : slugs[i] = slug THEN slugs
                 ELSE Append(slugs, slug)
    IN  [k \in DOMAIN cache \cup {keyword} |-> IF k = keyword THEN added ELSE cache[k]]

\* wikiCache.erase(keyword)
Erase(cache, keyword) == [k \in DOMAIN cache \ {keyword} |-> cache[k]]

\* lines 105-119: whether the slug was there, and the cache left
RemoveWikiEntry(cache, keyword, slug) ==
    IF keyword \in DOMAIN cache /\ \E i \in 1..Len(cache[keyword]) : cache[keyword][i] = slug
    THEN LET slugs == cache[keyword]
             at == CHOOSE i \in 1..Len(slugs) :
                       slugs[i] = slug /\ \A j \in 1..(i - 1) : slugs[j] # slug
             rest == SubSeq(slugs, 1, at - 1) \o SubSeq(slugs, at + 1, Len(slugs))
         IN  [removed |-> TRUE,
              cache |-> IF rest = <<>> THEN Erase(cache, keyword)
                        ELSE [cache EXCEPT ![keyword] = rest]]
    ELSE [removed |-> FALSE, cache |-> cache]

\* lines 192-200: the cache rebuilt from the rows of a load-all result
RECURSIVE LoadRows(_, _)
LoadRows(rows, cache) ==
    IF rows = <<>> THEN cache
    ELSE LET keyword == Head(rows)[1]
             slug == Head(rows)[2]
         IN  LoadRows(Tail(rows),
                      IF keyword # "" /\ slug # ""
                      THEN AddWikiEntry(cache, keyword, slug) ELSE cache)

\* the rows of a SELECT without ORDER BY come in any order
Orderings(S) ==
    {rows \in [1..Cardinality(S) -> S] :
        \A i, j \in 1..Cardinality(S) : i # j => rows[i] # rows[j]}

InFlight == Len(sqlqueue) + Len(sqlresults)

\* lines 263-279, ReadConfig: the cache is cleared and a load-all submitted
WikiReadConfig ==
    /\ InFlight < MaxQueries
    /\ wikiCache' = <<>>
    /\ sqlqueue' = Append(sqlqueue, Query("LOADALL", "", ""))
    /\ UNCHANGED <<censorplus, allsend, recaptcha, wiki_entries, sqlresults>>

\* lines 368-442, CommandWiki::Handle for ADD, DEL with and without a slug,
\* and SHOW, from an operator or not
WikiHandle ==
    /\ InFlight < MaxQueries
    /\ \E oper \in BOOLEAN, subcmd \in {"ADD", "DEL", "SHOW"},
          key \in Keywords, slug \in Slugs \cup {""} :
         IF ~oper \/ (subcmd = "ADD" /\ slug = "")
         THEN UNCHANGED <<wikiCache, sqlqueue>>
         ELSE CASE subcmd = "ADD" ->
                   IF key \in DOMAIN wikiCache
                      /\ \E i \in 1..Len(wikiCache[key]) : wikiCache[key][i] = slug
                   THEN UNCHANGED <<wikiCache, sqlqueue>>
                   ELSE /\ sqlqueue' = Append(sqlqueue, Query("INSERT", key, slug))
                        /\ wikiCache' = AddWikiEntry(wikiCache, key, slug)
                [] subcmd = "DEL" /\ slug = "" ->
                   /\ sqlqueue' = Append(sqlqueue, Query("DELETEALL", key, ""))
                   /\ wikiCache' = Erase(wikiCache, key)
                [] subcmd = "DEL" /\ slug # "" ->
                   LET r == RemoveWikiEntry(wikiCache, key, slug) IN
                   /\ wikiCache' = r.cache
                   /\ sqlqueue' = IF r.removed
                                  THEN Append(sqlqueue, Query("DELETE", key, slug))
                                  ELSE sqlqueue
                [] subcmd = "SHOW" ->
                   /\ sqlqueue' = Append(sqlqueue,
                                         Query(IF slug = "" THEN "SHOWALL" ELSE "SHOWONE",
                                               IF slug = "" THEN "" ELSE key, ""))
                   /\ UNCHANGED wikiCache
    /\ UNCHANGED <<censorplus, allsend, recaptcha, wiki_entries, sqlresults>>

\* the provider runs the oldest query: it fails, or it changes or reads the
\* table (an INSERT of a row already there fails on the UNIQUE constraint)
SqlExecute ==
    /\ sqlqueue # <<>>
    /\ LET q == Head(sqlqueue) IN
       \E answer \in BOOLEAN, rows \in Orderings(wiki_entries) :
         LET ok == answer /\ ~(q.op = "INSERT" /\ <<q.key, q.slug>> \in wiki_entries)
         IN  /\ wiki_entries' =
                    IF ~ok THEN wiki_entries
                    ELSE CASE q.op = "INSERT" -> wiki_entries \cup {<<q.key, q.slug>>}
                           [] q.op = "DELETE" -> wiki_entries \ {<<q.key, q.slug>>}
                           [] q.op = "DELETEALL" ->
                              {e \in wiki_entries : e[1] # q.key}
                           [] OTHER -> wiki_entries
             /\ sqlresults' = Append(sqlresults,
                                     [op |-> q.op, ok |-> ok,
                                      rows |-> IF ok /\ q.op = "LOADALL" THEN rows
                                               ELSE <<>>])
    /\ sqlqueue' = Tail(sqlqueue)
    /\ UNCHANGED <<censorplus, allsend, recaptcha, wikiCache>>

\* lines 192-206 and 212-260: OnResult or OnError of the oldest answer; only
\* the result of a load-all touches the cache
SqlDeliver ==
    /\ sqlresults # <<>>
    /\ LET r == Head(sqlresults) IN
       wikiCache' = IF r.op = "LOADALL" /\ r.ok THEN LoadRows(r.rows, <<>>)
                    ELSE wikiCache
    /\ sqlresults' = Tail(sqlresults)
    /\ UNCHANGED <<censorplus, allsend, recaptcha, wiki_entries, sqlqueue>>

WikiNext == WikiReadConfig \/ WikiHandle \/ SqlExecute \/ SqlDeliver

WikiSpec == Init /\ [][WikiNext]_vars

(***************************************************************************)
(* Properties.                                                             *)
(***************************************************************************)
\* the hook has been entered and has not crashed
InCall == pc \in {"scan", "done"}

\* the sender is exempt: an operator, or allowed by the exemption check of
\* the target channel
Exempt(ctx) ==
    \/ ctx.oper
    \/ ctx.ttype = "TYPE_CHANNEL" /\ ctx.exempt = "MOD_RES_ALLOW"

\* phrase occurs in text, ignoring ASCII case
Occurs(text, phrase) ==
    \E p \in 1..Len(text) :
        /\ p + Len(phrase) - 1 <= Len(text)
        /\ \A k \in 1..Len(phrase) : ToLower(text[p + k - 1]) = ToLower(phrase[k])

\* C1: an evaluation that failed internally (the catch block ran) ends with
\* the verdict Denied, never with the message passed through.
C1_FailureDenies ==
    (pc = "done" /\ threw) => result = "MOD_RES_DENY"

\* C2: the whitelist match of a message does not depend on the messages
\* scanned before it: IsMatch (when the scan reports no error) answers as it
\* would on a stream just opened on the same database.
C2_MatchIgnoresHistory ==
    (InCall /\ "whitelist" \in invoked /\ IsValidUTF8(call.text) /\ ~scan_err)
        => ((invoked = {"whitelist"})
                <=> ScanStream(OpenStream(stream.db), call.text).matched)

\* C3: for an exempt sender the hook returns at once with the message passed
\* through and its text unchanged: no matcher invoked, no character-set check,
\* no rule evaluated, no announcement and no numeric.
C3_ExemptPassesUntouched ==
    (pc # "idle" /\ Exempt(call.ctx))
        => /\ pc = "done"
           /\ result = "MOD_RES_PASSTHRU"
           /\ details_text = call.text
           /\ invoked = {}
           /\ chk = NoChk
           /\ ri = 0 /\ seen = <<>>
           /\ sno = <<>> /\ numerics = <<>>

\* an operator sends a text that a rule with an empty replacement would reject
C3_Witness ==
    /\ pc = "done" /\ call.ctx.oper /\ call.ctx.local
    /\ call.ctx.mode /\ call.ctx.exempt # "MOD_RES_ALLOW"
    /\ Len(censors) > 0 /\ censors[1].replace = <<>>
    /\ Occurs(call.text, censors[1].find)

\* C4: for a non-exempt sender on a filtered target, a text that is mixed
\* script or is not allowed is denied for its character set before any rule
\* is evaluated: one MixedCharacterUTF8 announcement and one numeric, the text
\* as it was sent.
C4_CharsetDeniedFirst ==
    (InCall /\ ~Gated(call.ctx))
        => /\ chk.mixed = IsMixedUTF8(locale, call.text)
           /\ (chk.mixed \/ chk.allowed = "false")
                => /\ pc = "done"
                   /\ result = "MOD_RES_DENY"
                   /\ sno = <<Announce("MixedCharacterUTF8", call.ctx, <<>>, call.text)>>
                   /\ numerics = <<CannotSendTo(call.ctx, <<>>)>>
                   /\ details_text = call.text
                   /\ ri = 0 /\ seen = <<>>

\* a text that is not allowed and holds the phrase of the first rule
C4_Witness ==
    /\ pc = "done" /\ ~Gated(call.ctx)
    /\ ~chk.mixed /\ chk.allowed = "false"
    /\ result = "MOD_RES_DENY"
    /\ Len(censors) > 0 /\ Occurs(call.text, censors[1].find)

\* a mixed-script text that IsAllowed would have let through
C4_MixedReached ==
    /\ pc = "done" /\ ~Gated(call.ctx) /\ chk.mixed
    /\ \E a \in IsAllowed(stream, scratch, emoji_pattern, kiwiirc_pattern, call.text) :
          a.ret = "true"

\* the rule the loop is at: its phrase is found and its replacement is empty
AtRejectingRule ==
    /\ pc = "scan" /\ ri <= Len(censors)
    /\ censors[ri].replace = <<>>
    /\ Occurs(details_text, censors[ri].find)

\* C5: when the phrase of a rule with an empty replacement is located, the
\* very next step rejects the message: the verdict is Denied, the announcement
\* and the numeric name that phrase, and the loop goes to no later rule.
C5_EmptyReplacementRejects ==
    [][AtRejectingRule
          => /\ pc' = "done"
             /\ result' = "MOD_RES_DENY"
             /\ ri' = ri /\ seen' = seen
             /\ sno' = <<Announce("CensorPlus", call.ctx, censors[ri].find, details_text)>>
             /\ numerics' = <<CannotSendTo(call.ctx, censors[ri].find)>>]_vars

\* rejected by a rule while a later rule's phrase is in the text too
C5_Witness ==
    /\ pc = "done" /\ result = "MOD_RES_DENY"
    /\ ri >= 1 /\ ri < Len(censors)
    /\ sno # <<>> /\ sno[1].phrase = censors[ri].find
    /\ Occurs(details_text, censors[ri + 1].find)

\* the rules foo -> "" and foobar -> baz, and "this has foobar in it"
RuleFoo == Tag(<<102, 111, 111>>, <<>>)
RuleFoobar == Tag(<<102, 111, 111, 98, 97, 114>>, <<98, 97, 122>>)
TextFoobar ==
    <<116, 104, 105, 115, 32, 104, 97, 115, 32, 102, 111, 111, 98, 97, 114,
      32, 105, 110, 32, 105, 116>>

\* C6: the rules are iterated in the case-insensitive order of their phrases,
\* whatever order they were configured in; the rejecting phrase is the first
\* in that order that is found with an empty replacement (every rule with an
\* empty replacement the loop has left was not in the text); foo -> "" and
\* foobar -> baz, configured in either order, deny "this has foobar in it"
\* for foo.
C6_FixedOrderFirstRejects ==
    /\ \A i, j \in 1..Len(censors) :
          i < j => InsensitiveLess(censors[i].find, censors[j].find)
    /\ InCall
          => /\ Len(seen) <= Len(censors)
             /\ \A j \in 1..Len(seen) :
                   censors[j].replace = <<>> => ~Occurs(seen[j], censors[j].find)
    /\ (pc = "done" /\ ~Gated(call.ctx) /\ call.text = TextFoobar
           /\ conftags \in {<<RuleFoo, RuleFoobar>>, <<RuleFoobar, RuleFoo>>})
          => /\ result = "MOD_RES_DENY"
             /\ sno = <<Announce("CensorPlus", call.ctx, RuleFoo.text, TextFoobar)>>
             /\ details_text = TextFoobar

\* "this has foobar in it" is denied for foo with foobar configured first
C6_Witness ==
    /\ pc = "done" /\ ~Gated(call.ctx) /\ call.text = TextFoobar
    /\ conftags = <<RuleFoobar, RuleFoo>>
    /\ result = "MOD_RES_DENY" /\ sno[1].phrase = RuleFoo.text

\* the rule bad -> good, "this is bad, very bad", "this is good, very good"
RuleBad == Tag(<<98, 97, 100>>, <<103, 111, 111, 100>>)
TextBad ==
    <<116, 104, 105, 115, 32, 105, 115, 32, 98, 97, 100, 44, 32, 118, 101,
      114, 121, 32, 98, 97, 100>>
TextGood ==
    <<116, 104, 105, 115, 32, 105, 115, 32, 103, 111, 111, 100, 44, 32, 118,
      101, 114, 121, 32, 103, 111, 111, 100>>

\* the rules a -> c and e-acute -> a
RuleAC == Tag(<<97>>, <<99>>)
RuleEA == Tag(<<195, 169>>, <<97>>)

\* the hook has passed the message through after the whole rule loop
Scanned == pc = "done" /\ ~Gated(call.ctx) /\ result = "MOD_RES_PASSTHRU" /\ ~threw

\* C7: a rule with a non-empty replacement is left only when no occurrence of
\* its phrase (in any case, inside a word or not) remains; the next rule is
\* scanned on the text so rewritten, and the text passed through is the one
\* the last rule left.  bad -> good turns "this is bad, very bad" into "this
\* is good, very good"; with a -> c and e-acute -> a, "aA" becomes "cc" and
\* "e-acute" becomes "a".
C7_RewriteAllOccurrences ==
    /\ InCall
          => \A j \in 1..Len(seen) :
                censors[j].replace # <<>> => ~Occurs(seen[j], censors[j].find)
    /\ Scanned
          => /\ Len(seen) = Len(censors)
             /\ details_text = IF seen = <<>> THEN call.text ELSE seen[Len(seen)]
    /\ (Scanned /\ conftags = <<RuleBad>> /\ call.text = TextBad)
          => details_text = TextGood
    /\ (Scanned /\ conftags = <<RuleAC, RuleEA>>)
          => /\ call.text = <<97, 65>> => details_text = <<99, 99>>
             /\ call.text = <<195, 169>> => seen = <<<<195, 169>>, <<97>>>>

\* "this is bad, very bad" has gone through the rule bad -> good
C7_Witness ==
    /\ Scanned /\ conftags = <<RuleBad>>
    /\ call.text = TextBad /\ details_text = TextGood

\* C8: when a rule rejects the message, the text the caller holds and the
\* text quoted in the announcement are the text as it was sent.
C8_RejectionKeepsOriginal ==
    (pc = "done" /\ result = "MOD_RES_DENY")
        => /\ details_text = call.text
           /\ \A i \in 1..Len(sno) : sno[i].text = call.text

\* C9: every evaluation that enters the rule loop leaves it with a verdict.
C9_ScanTerminates == (pc = "scan") ~> (pc = "done")

\* C10: a text of bytes 0x20..0x7E only (the empty text too) is allowed without
\* any matcher being invoked: the stream is as it was before the call, and
\* the hook goes on to the rule loop.
C10_AsciiFastPath ==
    [][(pc = "idle" /\ pc' # "idle" /\ ~Gated(call'.ctx) /\ AllPrintable(call'.text))
          => /\ chk' = [mixed |-> FALSE, allowed |-> "true"]
             /\ invoked' = {}
             /\ stream' = stream
             /\ pc' = "scan"]_vars

\* an ASCII text is in the rule loop while the stream is not in its first state
C10_Witness ==
    /\ pc = "scan" /\ ~Gated(call.ctx)
    /\ call.text # <<>> /\ AllPrintable(call.text)
    /\ invoked = {} /\ stream.st # {0}

\* the whole text is matched by pattern p, from its first to its last character
WholeMatch(p, text) == p.ok /\ IcuMatches(p, ToUnicodeString(text))

\* IsMatch answered as it would on a stream just opened
HistoryFree ==
    (invoked = {"whitelist"}) <=> ScanStream(OpenStream(stream.db), call.text).matched

\* C11: a text with a byte outside 0x20..0x7E is allowed if and only if the
\* whole text, from its first to its last character, matches the whitelist
\* pattern, the emoji pattern or the emoticon pattern; a whitelist match of a
\* part of the text does not allow it ([A-Za-z ]+ on "h<e-acute>llo").
C11_WholeStringOnly ==
    (InCall /\ ~Gated(call.ctx) /\ ~chk.mixed /\ ~AllPrintable(call.text)
         /\ IsValidUTF8(call.text) /\ ~scan_err /\ HistoryFree)
        => ((chk.allowed = "true")
               <=> \/ WholeMatch(whitelist_db, call.text)
                   \/ WholeMatch(emoji_pattern, call.text)
                   \/ WholeMatch(kiwiirc_pattern, call.text))

\* C12: the mixed-script check answers false for "", false for "hello", true
\* for "hello<De>" (Latin with Cyrillic) and false for the all-Cyrillic
\* "Dobryj Den".
C12_MixedScriptExamples ==
    (InCall /\ ~Gated(call.ctx))
        => /\ (call.text = <<>> => ~chk.mixed)
           /\ (call.text = TextHello => ~chk.mixed)
           /\ (call.text = TextHelloDe => chk.mixed)
           /\ (call.text = TextDobryjDen => ~chk.mixed)

\* a step in which ReadConfig runs: the load of the module, or a rehash
ReadConfigStep == (~active /\ pc = "idle") \/ rehashes' = rehashes + 1

\* C13: when ReadConfig fails, at whatever step, nothing of the new
\* configuration takes effect: the rules and the matchers are those the
\* module had before the call.
C13_FailedLoadChangesNothing ==
    [][(ReadConfigStep /\ lastload' # "ok")
          => (members' = members /\ active' = active)]_vars

\* the configurations whose <badword> tags all have a text
Loadable == {cfg \in Configs : \A i \in 1..Len(cfg.badwords) : cfg.badwords[i].text # <<>>}

\* the rule sets of the configurations
Snapshots == {BuildCensors(cfg.badwords, <<>>) : cfg \in Loadable}

\* the rules are those of one configuration, all of them and no others
WholeSnapshot == censors \in Snapshots

C16_MatchersPresent ==
    /\ pc # "crashed"
    /\ (active /\ pc = "idle")
          => /\ emoji_pattern.ok /\ kiwiirc_pattern.ok
             /\ whitelist_db.ok /\ scratch /\ stream.ok

\* C17: the module is never active on a configuration whose whitelist, emoji
\* or emoticon pattern source is empty.
C17_EmptySourceRejected ==
    active => /\ confvalue.whitelistregex # <<>>
              /\ confvalue.emojiregex # <<>>
              /\ confvalue.kiwiircregex # <<>>

\* C18: after a successful load the whitelist database is the compilation of
\* the whitelist source configured now.
C18_WhitelistFromConfiguredSource ==
    (active /\ lastload = "ok")
        => whitelist_db = HsCompile(confvalue.whitelistregex)

\* C19: ReadConfig fails at the whitelist step only when the configured
\* whitelist source does not compile, never for the cache file alone.
C19_CacheFailureNotFatal ==
    lastload = "whitelist" => ~HsCompile(confvalue.whitelistregex).ok

\* C20: when the scan of a message reports an error, the whitelist counts as
\* not matched, whatever onMatch was called for, and the message is allowed
\* only if the emoji or the emoticon pattern matches the whole of it.
C20_EngineErrorNoMatch ==
    (InCall /\ ~Gated(call.ctx) /\ scan_err)
        => /\ invoked # {"whitelist"}
           /\ (chk.allowed = "true")
                 => \/ WholeMatch(emoji_pattern, call.text)
                    \/ WholeMatch(kiwiirc_pattern, call.text)

\* C21: a call that ends with DENY has written exactly one announcement to
\* the operators, naming the target and the reason (the character check, or
\* the banned phrase, which occurs in the text), and exactly one numeric to
\* the sender; a call that ends with PASSTHRU has written neither.
C21_DenyAnnouncedOnce ==
    (pc = "done")
        => /\ result = "MOD_RES_DENY"
                => /\ Len(sno) = 1 /\ Len(numerics) = 1
                   /\ sno[1].target = call.ctx.ttype
                   /\ numerics[1].target = call.ctx.ttype
                   /\ sno[1].phrase = numerics[1].phrase
                   /\ \/ /\ sno[1].kind = "MixedCharacterUTF8"
                         /\ chk.mixed \/ chk.allowed = "false"
                      \/ /\ sno[1].kind = "CensorPlus"
                         /\ Occurs(sno[1].text, sno[1].phrase)
           /\ result = "MOD_RES_PASSTHRU" => sno = <<>> /\ numerics = <<>>

\* a private message holding a banned phrase has been denied
C21_Witness ==
    /\ pc = "done" /\ result = "MOD_RES_DENY"
    /\ call.ctx.ttype = "TYPE_USER"
    /\ Len(sno) = 1 /\ sno[1].kind = "CensorPlus"

\* the call has passed the gates and the character check: the rule loop runs
ScanApplied ==
    InCall /\ ~Gated(call.ctx) /\ ~chk.mixed /\ chk.allowed = "true"

\* no phrase of the active rules occurs in text, in any case
NoPhraseIn(text) == \A i \in 1..Len(censors) : ~Occurs(text, censors[i].find)

\* C22: the rule loop run on a text in which no configured phrase occurs, in
\* any case, leaves details.text equal to the text received, writes no
\* announcement and no numeric, throws nothing, and ends with PASSTHRU.
C22_NoPhraseUnchanged ==
    (ScanApplied /\ NoPhraseIn(call.text))
        => /\ details_text = call.text
           /\ sno = <<>> /\ numerics = <<>>
           /\ ~threw
           /\ pc = "done" => result = "MOD_RES_PASSTHRU"

\* a non-empty text has gone through a non-empty rule set none of whose
\* phrases it holds
C22_Witness ==
    /\ pc = "done" /\ ScanApplied /\ NoPhraseIn(call.text)
    /\ censors # <<>> /\ call.text # <<>>

\* the units IsMixedUTF8 classifies are the bytes of the text; a letter is a
\* non-ASCII byte std::isalpha accepts, and its bucket is whether it has case
Letter(loc, c) == c >= 128 /\ IsAlphaByte(loc, c)

Cased(loc, c) == IsLowerByte(loc, c) \/ IsUpperByte(loc, c)

\* the first letter of text, 0 if it has none
FirstLetter(loc, text) ==
    LET at == {i \in 1..Len(text) : Letter(loc, text[i])}
    IN  IF at = {} THEN 0 ELSE CHOOSE i \in at : \A j \in at : i <= j

\* some letter after the first one falls in the other bucket
OtherBucketLater(loc, text) ==
    LET f == FirstLetter(loc, text)
    IN  /\ f # 0
        /\ \E j \in (f + 1)..Len(text) :
              Letter(loc, text[j]) /\ Cased(loc, text[j]) # Cased(loc, text[f])

\* text without its ASCII bytes
RECURSIVE NonAscii(_)
NonAscii(text) ==
    IF text = <<>> THEN <<>>
    ELSE IF Head(text) < 128 THEN NonAscii(Tail(text))
    ELSE <<Head(text)>> \o NonAscii(Tail(text))

\* C25: the mixed-script check, unit by unit (the code's units are bytes),
\* ignores ASCII units and non-alphabetic units, takes the bucket of the
\* first non-ASCII letter, and answers true exactly when a later non-ASCII
\* letter is in the other bucket; its answer is that of the text with every
\* ASCII unit removed, and it is false when the letters of the text fill
\* fewer than two buckets.
C25_MixedScriptByBuckets ==
    (InCall /\ ~Gated(call.ctx))
        => /\ chk.mixed <=> OtherBucketLater(locale, call.text)
           /\ chk.mixed <=> OtherBucketLater(locale, NonAscii(call.text))
           /\ Cardinality({Cased(locale, call.text[i]) :
                             i \in {j \in 1..Len(call.text) :
                                      Letter(locale, call.text[j])}}) < 2
                 => ~chk.mixed

\* a text with a cased letter, an ignored byte and a caseless letter has
\* been found mixed
C25_Witness ==
    /\ InCall /\ ~Gated(call.ctx) /\ chk.mixed
    /\ \E i \in 1..Len(call.text) :
          call.text[i] >= 128 /\ ~Letter(locale, call.text[i])

\* the phrases of a rule set in iteration order, and as a set, case folded
PhraseSeq(map) == [i \in 1..Len(map) |-> Fold(map[i].find)]

PhraseSet(map) == {Fold(map[i].find) : i \in 1..Len(map)}

\* the last ReadConfig got past the loop over the <badword> tags
RulesTaken == active /\ lastload # "badword"

\* C26: after any sequence of loads and rehashes the active rules hold no two
\* phrases equal in the case-insensitive comparison; when the last
\* configuration's rules were taken, the phrases of the active rules are the
\* configured ones (a phrase configured twice, in any case, is one rule), and
\* every configuration with the same set of phrases gives the same iteration
\* order, whatever the order of its entries.
C26_OneRulePerPhrase ==
    /\ \A i, j \in 1..Len(censors) :
          i # j => ~InsensitiveEq(censors[i].find, censors[j].find)
    /\ RulesTaken
          => /\ PhraseSet(censors) = {Fold(conftags[i].text) : i \in 1..Len(conftags)}
             /\ \A s \in Snapshots :
                   PhraseSet(s) = PhraseSet(censors) => PhraseSeq(s) = PhraseSeq(censors)

\* a phrase configured twice, in two cases, is held once
C26_Witness ==
    /\ RulesTaken
    /\ Len(conftags) = 2 /\ Len(censors) = 1
    /\ conftags[1].text # conftags[2].text

\* C27: a message of a non-exempt sender to a filtered target that is passed
\* through after the rule loop, the loop having thrown nothing, holds no
\* occurrence, in any case, of any phrase of the active rules.
C27_DeliveredTextClean ==
    Scanned => NoPhraseIn(details_text)

\* the message is outside the filter's reach: its sender is not local, or
\* its target is a user or a channel without mode G, or is neither
Unfiltered(ctx) ==
    \/ ~ctx.local
    \/ ctx.ttype \in {"TYPE_USER", "TYPE_CHANNEL"} /\ ~ctx.mode
    \/ ctx.ttype \notin {"TYPE_USER", "TYPE_CHANNEL"}

\* C28: the hook called for a message outside the filter's reach returns
\* PASSTHRU at once: details.text is the text received, nothing is announced
\* or sent to the sender, no character check and no matcher runs (the
\* whitelist stream is not advanced), and no rule is evaluated.
C28_UnfilteredUntouched ==
    [][(pc = "idle" /\ pc' # "idle" /\ Unfiltered(call'.ctx))
          => /\ pc' = "done"
             /\ result' = "MOD_RES_PASSTHRU"
             /\ details_text' = call'.text
             /\ sno' = <<>> /\ numerics' = <<>>
             /\ invoked' = {} /\ chk' = NoChk /\ ~scan_err'
             /\ stream' = stream
             /\ ri' = 0]_vars

\* a local non-operator sends to a user without mode G a text that the
\* first rule would reject
C28_Witness ==
    /\ pc = "done" /\ call.ctx.local /\ ~call.ctx.oper
    /\ call.ctx.ttype = "TYPE_USER" /\ ~call.ctx.mode
    /\ Len(censors) > 0 /\ censors[1].replace = <<>>
    /\ Occurs(call.text, censors[1].find)
    /\ result = "MOD_RES_PASSTHRU"

\* C29: over loads, rehashes and unloads, at most one Hyperscan database, one
\* scratch space and one stream is live at any moment (a rehash releases the
\* ones it replaces), nothing is live once the module is destroyed, and the
\* destructor never hands a released object to the library (the stream is
\* closed before the scratch space it is closed with is freed).
C29_ReleasedExactlyOnce ==
    /\ hs_live.db <= 1 /\ hs_live.scratch <= 1 /\ hs_live.stream <= 1
    /\ ~active => hs_live = [db |-> 0, scratch |-> 0, stream |-> 0]
    /\ ~hs_stale

\* C23: an ALLSEND from a user who is not an operator fails and sends no
\* notice and no private message to anyone.
C23_AllSendOperOnly ==
    (as_result # "NONE" /\ ~as_user.oper)
        => as_sent = {} /\ as_result = "FAILURE"

\* the last registration was on a checked port from an ip that was not in
\* the table
Unlisted == reg.result # "NONE" /\ reg.checked /\ ~reg.listed

\* C24 as stated: a user registering on a checked port from an ip that is not
\* in the table is quit and OnUserRegister returns DENY, whatever
\* registrations, table changes and database failures came before.
C24_AdmittedOnlyIfListed ==
    Unlisted => reg.result = "MOD_RES_DENY" /\ reg.quit

\* C24 amended: a user registering on a checked port from an ip that is not
\* in the table is quit and OnUserRegister returns DENY, unless the user has
\* SASL state, or the database connection or the query failed, or the ip has
\* a cache entry that has not expired; and a cache entry never expires later
\* than CACHE_DURATION_MINUTES from now.
C24_AdmittedOnlyIfListedOrExcused ==
    /\ (Unlisted /\ ~reg.sasl /\ reg.fault = "none"
           /\ ~(reg.entry # NoEntry /\ reg.at < reg.entry))
          => reg.result = "MOD_RES_DENY" /\ reg.quit
    /\ \A ip \in DOMAIN ip_cache : ip_cache[ip] <= now + CACHE_DURATION_MINUTES

\* an ip that was admitted and cached is taken off the table, its entry
\* expires, and its next registration is denied
C24_Witness ==
    /\ Unlisted /\ ~reg.sasl /\ reg.fault = "none"
    /\ reg.entry # NoEntry /\ reg.at >= reg.entry
    /\ reg.result = "MOD_RES_DENY" /\ reg.quit

\* the (keyword, slug) pairs the cache holds
CachePairs ==
    UNION {{<<k, wikiCache[k][i]>> : i \in 1..Len(wikiCache[k])} : k \in DOMAIN wikiCache}

\* C30: when no submitted query is waiting to run or to be answered, the
\* cache holds exactly the rows of the table wiki_entries.
C30_CacheEqualsTable ==
    (sqlqueue = <<>> /\ sqlresults = <<>>) => CachePairs = wiki_entries

=============================================================================
